---- MODULE Spec2Model ----
(***************************************************************************)
(* Position-based constraint solver of bevy_xpbd (soft-body fork):         *)
(* EdgeConstraint, IsometricBendingConstraint and VolumeConstraint acting  *)
(* on four bodies (Spec), the drag plugin's drag_particles (DragSpec) and  *)
(* the three debug draw systems (DrawSpec).                                *)
(*                                                                         *)
(* Scalars (f32 in the source) are modelled as exact extended rationals    *)
(* <<n, d>>: d > 0 is the finite value n/d in lowest terms, <<1, 0>> and   *)
(* <<-1, 0>> are +inf and -inf, <<0, 0>> is NaN.  Rounding and signed      *)
(* zeros are not modelled.  Vec3 is a triple of scalars.                   *)
(***************************************************************************)
EXTENDS Integers, Sequences, FiniteSets, TLC

(***************************************************************************)
(* Scalar arithmetic                                                       *)
(***************************************************************************)
Abs(n) == IF n < 0 THEN -n ELSE n

Sgn(n) == IF n < 0 THEN -1 ELSE IF n > 0 THEN 1 ELSE 0

RECURSIVE GCD(_, _)
GCD(a, b) == IF b = 0 THEN a ELSE GCD(b, a % b)

Norm(n, d) ==
    IF d = 0 THEN <<Sgn(n), 0>>
    ELSE LET s == IF d < 0 THEN -1 ELSE 1
             g == GCD(Abs(n), Abs(d))
         IN  <<(s * n) \div g, (s * d) \div g>>

Num(n) == <<n, 1>>

Frac(n, d) == Norm(n, d)

NaN == <<0, 0>>

Zero == <<0, 1>>

RIsNaN(a) == a = NaN

RIsFinite(a) == a[2] # 0

RNeg(a) == <<-a[1], a[2]>>

\* Sums and products cancel common factors first, so that intermediate
\* integers stay small.
Gcd1(a, b) == LET g == GCD(Abs(a), Abs(b)) IN IF g = 0 THEN 1 ELSE g

RAdd(a, b) ==
    IF a[2] = 0 /\ b[2] = 0
    THEN (IF a[1] = b[1] THEN a ELSE NaN)
    ELSE LET g == Gcd1(a[2], b[2])
         IN  Norm(a[1] * (b[2] \div g) + b[1] * (a[2] \div g),
                  (a[2] \div g) * b[2])

RSub(a, b) == RAdd(a, RNeg(b))

RMul(a, b) ==
    LET g1 == Gcd1(a[1], b[2])
        g2 == Gcd1(b[1], a[2])
    IN  Norm((a[1] \div g1) * (b[1] \div g2), (a[2] \div g2) * (b[2] \div g1))

RInv(a) == IF a[1] < 0 THEN <<-a[2], -a[1]>> ELSE <<a[2], a[1]>>

RDiv(a, b) == RMul(a, RInv(b))

\* IEEE comparisons: every comparison with NaN is false.
RLt(a, b) ==
    /\ ~RIsNaN(a)
    /\ ~RIsNaN(b)
    /\ IF a[2] = 0 /\ b[2] = 0 THEN a[1] < b[1]
       ELSE LET g == Gcd1(a[2], b[2])
            IN  a[1] * (b[2] \div g) < b[1] * (a[2] \div g)

REq(a, b) == ~RIsNaN(a) /\ ~RIsNaN(b) /\ a = b

RLe(a, b) == RLt(a, b) \/ REq(a, b)

RAbs(a) == <<Abs(a[1]), a[2]>>

\* a < 10^(-k), computed without forming 10^k.
RECURSIVE LtPow10(_, _, _)
LtPow10(n, d, k) ==
    IF k = 0 THEN n < d
    ELSE IF n >= d THEN FALSE
    ELSE LtPow10(n * 10, d, k - 1)

RLtTenTo(a, k) ==
    /\ ~RIsNaN(a)
    /\ IF a[2] = 0 THEN a[1] < 0
       ELSE a[1] <= 0 \/ LtPow10(a[1], a[2], k)

RECURSIVE ISqrtIter(_, _, _)
ISqrtIter(n, lo, hi) ==
    IF lo >= hi THEN lo
    ELSE LET mid == (lo + hi + 1) \div 2
         IN  IF mid * mid <= n THEN ISqrtIter(n, mid, hi)
             ELSE ISqrtIter(n, lo, mid - 1)

ISqrt(n) == ISqrtIter(n, 0, IF n < 46340 THEN n ELSE 46340)

IsSquare(n) == n >= 0 /\ ISqrt(n) * ISqrt(n) = n

\* The square root is representable exactly (or the argument is not finite
\* and non-negative, where the result is NaN or +inf).
ExactSqrt(a) == a[2] = 0 \/ a[1] < 0 \/ (IsSquare(a[1]) /\ IsSquare(a[2]))

RSqrt(a) ==
    IF RIsNaN(a) \/ a[1] < 0 THEN NaN
    ELSE IF a[2] = 0 THEN a
    ELSE <<ISqrt(a[1]), ISqrt(a[2])>>

(***************************************************************************)
(* Vec3                                                                    *)
(***************************************************************************)
Vec(x, y, z) == <<Num(x), Num(y), Num(z)>>

VecZero == Vec(0, 0, 0)

VecX == Vec(1, 0, 0)

VAdd(u, v) == <<RAdd(u[1], v[1]), RAdd(u[2], v[2]), RAdd(u[3], v[3])>>

VSub(u, v) == <<RSub(u[1], v[1]), RSub(u[2], v[2]), RSub(u[3], v[3])>>

VScale(v, s) == <<RMul(v[1], s), RMul(v[2], s), RMul(v[3], s)>>

VDiv(v, s) == <<RDiv(v[1], s), RDiv(v[2], s), RDiv(v[3], s)>>

dot(u, v) == RAdd(RAdd(RMul(u[1], v[1]), RMul(u[2], v[2])), RMul(u[3], v[3]))

cross(u, v) ==
    << RSub(RMul(u[2], v[3]), RMul(u[3], v[2])),
       RSub(RMul(u[3], v[1]), RMul(u[1], v[3])),
       RSub(RMul(u[1], v[2]), RMul(u[2], v[1])) >>

length_squared(v) == dot(v, v)

length(v) == RSqrt(length_squared(v))

distance(u, v) == length(VSub(u, v))

is_nan(v) == RIsNaN(v[1]) \/ RIsNaN(v[2]) \/ RIsNaN(v[3])

VIsFinite(v) == RIsFinite(v[1]) /\ RIsFinite(v[2]) /\ RIsFinite(v[3])

(***************************************************************************)
(* Bounds and inputs                                                       *)
(***************************************************************************)
\* Number of solve calls the host makes in one behaviour.
MaxSolves == 2

\* Largest denominator of a body coordinate from which a solve is still
\* followed: intermediate integers stay within the checker's integer range.
MaxDenominator == 12

Bodies == 1 .. 4

\* Initial positions of the four bodies.
Scenes ==
    << \* tetrahedron, positive signed volume in input order
       << Vec(0, 0, 0), Vec(2, 0, 0), Vec(0, 2, 0), Vec(0, 0, 2) >>,
       \* the same tetrahedron with bodies 2 and 3 exchanged: negative volume
       << Vec(0, 0, 0), Vec(0, 2, 0), Vec(2, 0, 0), Vec(0, 0, 2) >>,
       \* regular tetrahedron
       << Vec(1, 1, 1), Vec(1, -1, -1), Vec(-1, 1, -1), Vec(-1, -1, 1) >>,
       \* flat quad, apexes 3 and 4 on opposite sides of the edge (1, 2)
       << Vec(0, 0, 0), Vec(0, 2, 0), Vec(1, 1, 0), Vec(-1, 1, 0) >>,
       \* flat quad, asymmetric, apexes on opposite sides
       << Vec(0, 0, 0), Vec(0, 4, 0), Vec(2, 1, 0), Vec(-1, 3, 0) >>,
       \* quad folded shut: the apexes 3 and 4 coincide
       << Vec(0, 0, 0), Vec(0, 2, 0), Vec(1, 1, 0), Vec(1, 1, 0) >>,
       \* bodies 1 and 2 coincide; bodies 3 and 4 are 5 apart
       << Vec(0, 0, 0), Vec(0, 0, 0), Vec(0, 3, 0), Vec(4, 0, 0) >> >>

\* Inverse masses of the four bodies.
Masses ==
    << <<1, 1, 1, 1>>, <<0, 1, 1, 1>>, <<1, 0, 2, 1>>, <<1, 1, 0, 1>>,
       <<1, 2, 1, 0>>, <<2, 1, 0, 0>>, <<0, 0, 1, 2>>, <<1, 2, 2, 1>>,
       <<0, 0, 0, 0>> >>

\* Values handed to with_compliance and with_rest_length.
Compliances == {Num(0), Num(1)}

RestValues == {Num(1), Num(3)}

\* Values handed to with_rest_volume: any Scalar is accepted, +inf included.
RestVolumes == RestValues \cup {<<1, 0>>}

\* Substep durations handed to solve.
Dts == {Num(1), Num(2)}

\* Entity pairs an EdgeConstraint is built over.
EdgePairs == {<<1, 2>>, <<3, 4>>}

NoConstraint == [kind |-> "none"]

(***************************************************************************)
(* State                                                                   *)
(***************************************************************************)
VARIABLES
    position,                \* Position of each body
    inverse_mass,            \* InverseMass of each body
    accumulated_translation, \* AccumulatedTranslation of each body
    constraint,              \* the constraint component the host holds, or NoConstraint
    last,                    \* the last operation, its dt and the accumulators before it
    fault,                   \* "none", or "panic" once the program has aborted
    solves,                  \* number of solve calls so far
    drag_state,              \* Local<Option<DragInfo>> of drag_particles
    buttons,                 \* Input<MouseButton>, left button, as of the last frame
    enabled,                 \* DragParticle.enabled of each body
    first_grab,              \* inverse mass each body had when it was first grabbed
    frames,                  \* number of frames drag_particles has run in
    constraints,             \* the constraint components, in query iteration order
    transforms,              \* the bodies that have a GlobalTransform
    gizmos                   \* the line segments the last draw system emitted

\* The state of the drag plugin and of the debug draw systems.
hostVars == <<drag_state, buttons, enabled, first_grab, frames, constraints,
              transforms, gizmos>>

vars == <<position, inverse_mass, accumulated_translation, constraint, last,
          fault, solves, hostVars>>

None == [some |-> FALSE]

NotGrabbed == [grabbed |-> FALSE, inverse_mass |-> Zero]

\* No button event yet, nothing grabbed, nothing to draw.
HostIdle ==
    /\ drag_state = None
    /\ buttons = [pressed |-> FALSE, just_pressed |-> FALSE, just_released |-> FALSE]
    /\ enabled = [b \in Bodies |-> FALSE]
    /\ first_grab = [b \in Bodies |-> NotGrabbed]
    /\ frames = 0
    /\ constraints = << >>
    /\ transforms = Bodies
    /\ gizmos = << >>

\* RigidBodyQueryItem::current_position
current_position(b) == VAdd(position[b], accumulated_translation[b])

Init ==
    /\ \E s \in 1 .. Len(Scenes) : position = [b \in Bodies |-> Scenes[s][b]]
    /\ \E m \in 1 .. Len(Masses) : inverse_mass = [b \in Bodies |-> Num(Masses[m][b])]
    /\ accumulated_translation = [b \in Bodies |-> VecZero]
    /\ constraint = NoConstraint
    /\ last = [op |-> "init", dt |-> Zero, acc |-> [b \in Bodies |-> VecZero]]
    /\ fault = "none"
    /\ solves = 0
    /\ HostIdle

Done(op, dt) == last' = [op |-> op, dt |-> dt, acc |-> accumulated_translation]

(***************************************************************************)
(* EdgeConstraint                                                          *)
(***************************************************************************)
EdgeDefaultCompliance == Frac(1, 10)

EdgeConstraint_new(entity1, position1, entity2, position2) ==
    [kind |-> "edge", entity1 |-> entity1, entity2 |-> entity2,
     rest_length |-> distance(position1, position2),
     compliance |-> EdgeDefaultCompliance]

\* Mutant: the first inverse mass counted twice.
EdgeWFirstTwice(inv_mass1, inv_mass2) == RAdd(inv_mass1, inv_mass1)

EdgeW(inv_mass1, inv_mass2) == RAdd(inv_mass1, inv_mass2)

Alpha(compliance, dt) == RDiv(compliance, RMul(dt, dt))

\* Mutant: no fallback direction for a collapsed edge.
EdgeDirectionNoFallback(delta, dist) == VDiv(delta, dist)

EdgeDirection(delta, dist) ==
    IF REq(dist, Zero) THEN VecX ELSE VDiv(delta, dist)

\* Mutant: the leading negation dropped.
EdgeResidualUnsigned(dist, rest_length, w, alpha) ==
    RDiv(RSub(dist, rest_length), RAdd(w, alpha))

EdgeResidual(dist, rest_length, w, alpha) ==
    RDiv(RNeg(RSub(dist, rest_length)), RAdd(w, alpha))

EdgePush1(direction, residual, inv_mass1) ==
    VScale(VScale(direction, residual), inv_mass1)

EdgePush2(direction, residual, inv_mass2) ==
    VScale(VScale(direction, residual), inv_mass2)

\* The accumulators of bodies[0] and bodies[1] after solve, given the two
\* bodies' current positions, inverse masses and accumulators.
EdgeConstraint_solve(c, p1, p2, inv_mass1, inv_mass2, acc1, acc2, dt) ==
    LET w == EdgeW(inv_mass1, inv_mass2)
        alpha == Alpha(c.compliance, dt)
        delta == VSub(p2, p1)
        dist == length(delta)
        direction == EdgeDirection(delta, dist)
        residual == EdgeResidual(dist, c.rest_length, w, alpha)
    IN  IF REq(w, Zero) THEN <<acc1, acc2>>
        ELSE << VSub(acc1, EdgePush1(direction, residual, inv_mass1)),
                VAdd(acc2, EdgePush2(direction, residual, inv_mass2)) >>

EdgeSolved(c, dt) ==
    EdgeConstraint_solve(c, current_position(c.entity1), current_position(c.entity2),
                         inverse_mass[c.entity1], inverse_mass[c.entity2],
                         accumulated_translation[c.entity1],
                         accumulated_translation[c.entity2], dt)

Setup == fault = "none" /\ solves = 0

Representable ==
    \A b \in Bodies : \A k \in 1 .. 3 : current_position(b)[k][2] <= MaxDenominator

CanSolve == fault = "none" /\ solves < MaxSolves /\ Representable

EdgeNew ==
    /\ Setup
    /\ \E pr \in EdgePairs :
          /\ ExactSqrt(length_squared(VSub(position[pr[1]], position[pr[2]])))
          /\ constraint' = EdgeConstraint_new(pr[1], position[pr[1]], pr[2], position[pr[2]])
    /\ Done("EdgeNew", Zero)
    /\ UNCHANGED <<position, inverse_mass, accumulated_translation, fault, solves>>
    /\ UNCHANGED hostVars

EdgeWithCompliance ==
    /\ Setup
    /\ constraint.kind = "edge"
    /\ \E compliance \in Compliances : constraint' = [constraint EXCEPT !.compliance = compliance]
    /\ Done("EdgeWithCompliance", Zero)
    /\ UNCHANGED <<position, inverse_mass, accumulated_translation, fault, solves>>
    /\ UNCHANGED hostVars

EdgeWithRestLength ==
    /\ Setup
    /\ constraint.kind = "edge"
    /\ \E rest_length \in RestValues : constraint' = [constraint EXCEPT !.rest_length = rest_length]
    /\ Done("EdgeWithRestLength", Zero)
    /\ UNCHANGED <<position, inverse_mass, accumulated_translation, fault, solves>>
    /\ UNCHANGED hostVars

EdgeSolve ==
    /\ CanSolve
    /\ constraint.kind = "edge"
    /\ ExactSqrt(length_squared(VSub(current_position(constraint.entity2),
                                     current_position(constraint.entity1))))
    /\ \E dt \in Dts :
          /\ accumulated_translation' =
                [accumulated_translation EXCEPT
                    ![constraint.entity1] = EdgeSolved(constraint, dt)[1],
                    ![constraint.entity2] = EdgeSolved(constraint, dt)[2]]
          /\ Done("EdgeSolve", dt)
    /\ solves' = solves + 1
    /\ UNCHANGED <<position, inverse_mass, constraint, fault>>
    /\ UNCHANGED hostVars

(***************************************************************************)
(* VolumeConstraint                                                        *)
(***************************************************************************)
volume(p1, p2, p3, p4) ==
    LET v1 == VSub(p2, p1)
        v2 == VSub(p3, p1)
        v3 == VSub(p4, p1)
    IN  RDiv(dot(cross(v1, v2), v3), Num(6))

\* Mutant: the rest volume is recomputed for the swapped order but the
\* identifiers are stored in input order.
VolumeConstraint_new_NoSwap(entity1, position1, entity2, position2, entity3, position3, entity4, position4) ==
    LET first == volume(position1, position2, position3, position4)
        rest_volume == IF RLt(first, Zero)
                       THEN volume(position1, position3, position2, position4)
                       ELSE first
    IN  IF ~RLt(Zero, rest_volume) THEN [kind |-> "panic"]
        ELSE [kind |-> "volume", entity1 |-> entity1, entity2 |-> entity2,
              entity3 |-> entity3, entity4 |-> entity4,
              rest_volume |-> rest_volume, compliance |-> Zero]

\* The constraint VolumeConstraint::new returns, or "panic" in field kind
\* when its assertion fails.
VolumeConstraint_new(entity1, position1, entity2, position2, entity3, position3, entity4, position4) ==
    LET first == volume(position1, position2, position3, position4)
        swap == RLt(first, Zero)
        rest_volume == IF swap THEN volume(position1, position3, position2, position4)
                       ELSE first
    IN  IF ~RLt(Zero, rest_volume) THEN [kind |-> "panic"]
        ELSE [kind |-> "volume", entity1 |-> entity1,
              entity2 |-> IF swap THEN entity3 ELSE entity2,
              entity3 |-> IF swap THEN entity2 ELSE entity3,
              entity4 |-> entity4,
              rest_volume |-> rest_volume, compliance |-> Zero]

entities(c) == <<c.entity1, c.entity2, c.entity3, c.entity4>>

Sum4(f) == RAdd(RAdd(RAdd(RAdd(Zero, f[1]), f[2]), f[3]), f[4])

\* id_views: [body.inverse_mass, ...positions of opposite bodies]; im and p
\* are the inverse masses and current positions of bodies[0..3].
id_views(im, p) ==
    << <<im[1], p[2], p[3], p[4]>>,
       <<im[2], p[1], p[4], p[3]>>,
       <<im[4], p[1], p[3], p[2]>>,
       <<im[3], p[1], p[2], p[4]>> >>

VolumeGradient(pa, pb, pc) == VDiv(cross(VSub(pb, pa), VSub(pc, pa)), Num(6))

VolumeGradients(views) ==
    [i \in 1 .. 4 |-> VolumeGradient(views[i][2], views[i][3], views[i][4])]

VolumeW(views, gradients) ==
    Sum4([i \in 1 .. 4 |-> RMul(views[i][1], length_squared(gradients[i]))])

\* Mutant: the rest volume is not subtracted.
VolumeResidualNoRest(vol, rest_volume, w, alpha) ==
    RDiv(RNeg(vol), RAdd(w, alpha))

VolumeResidual(vol, rest_volume, w, alpha) ==
    RDiv(RNeg(RSub(vol, rest_volume)), RAdd(w, alpha))

\* Mutant: the push is not weighted by the inverse mass.
VolumePushUnweighted(gradient, residual, inv_mass) == VScale(gradient, residual)

VolumePush(gradient, residual, inv_mass) ==
    VScale(VScale(gradient, residual), inv_mass)

\* The loop over the gradients: stops with panicked at the first NaN push.
RECURSIVE VolumeApply(_, _, _, _, _)
VolumeApply(acc, gradients, residual, im, index) ==
    IF index > 4 THEN [acc |-> acc, panicked |-> FALSE]
    ELSE LET push == VolumePush(gradients[index], residual, im[index])
         IN  IF is_nan(push) THEN [acc |-> acc, panicked |-> TRUE]
             ELSE VolumeApply([acc EXCEPT ![index] = VAdd(acc[index], push)],
                              gradients, residual, im, index + 1)

\* p, im, acc: current positions, inverse masses and accumulators of
\* bodies[0..3]; the result holds the accumulators after solve.
VolumeConstraint_solve(c, p, im, acc, dt) ==
    LET alpha == Alpha(c.compliance, dt)
        views == id_views(im, p)
        gradients == VolumeGradients(views)
        w == VolumeW(views, gradients)
        vol == volume(p[1], p[2], p[3], p[4])
        residual == VolumeResidual(vol, c.rest_volume, w, alpha)
    IN  IF REq(w, Zero) THEN [acc |-> acc, panicked |-> FALSE]
        ELSE VolumeApply(acc, gradients, residual, im, 1)

\* The host's fetch of the bodies a four-body constraint names.
BodyPositions(c) == [i \in 1 .. 4 |-> current_position(entities(c)[i])]

BodyMasses(c) == [i \in 1 .. 4 |-> inverse_mass[entities(c)[i]]]

BodyAccs(c) == [i \in 1 .. 4 |-> accumulated_translation[entities(c)[i]]]

IndexOf(c, b) == CHOOSE i \in 1 .. 4 : entities(c)[i] = b

VolumeSolved(c, dt) ==
    VolumeConstraint_solve(c, BodyPositions(c), BodyMasses(c), BodyAccs(c), dt)

VolumeNew ==
    /\ Setup
    /\ LET c == VolumeConstraint_new(1, position[1], 2, position[2],
                                     3, position[3], 4, position[4])
       IN  IF c.kind = "panic"
           THEN fault' = "panic" /\ UNCHANGED constraint
           ELSE constraint' = c /\ UNCHANGED fault
    /\ Done("VolumeNew", Zero)
    /\ UNCHANGED <<position, inverse_mass, accumulated_translation, solves>>
    /\ UNCHANGED hostVars

VolumeWithCompliance ==
    /\ Setup
    /\ constraint.kind = "volume"
    /\ \E compliance \in Compliances :
          constraint' = [constraint EXCEPT !.compliance = compliance]
    /\ Done("VolumeWithCompliance", Zero)
    /\ UNCHANGED <<position, inverse_mass, accumulated_translation, fault, solves>>
    /\ UNCHANGED hostVars

VolumeWithRestVolume ==
    /\ Setup
    /\ constraint.kind = "volume"
    /\ \E rest_volume \in RestVolumes :
          constraint' = [constraint EXCEPT !.rest_volume = rest_volume]
    /\ Done("VolumeWithRestVolume", Zero)
    /\ UNCHANGED <<position, inverse_mass, accumulated_translation, fault, solves>>
    /\ UNCHANGED hostVars

VolumeSolve ==
    /\ CanSolve
    /\ constraint.kind = "volume"
    /\ \E dt \in Dts :
          LET r == VolumeSolved(constraint, dt)
          IN  /\ accumulated_translation' =
                    [b \in Bodies |-> r.acc[IndexOf(constraint, b)]]
              /\ fault' = IF r.panicked THEN "panic" ELSE fault
              /\ Done("VolumeSolve", dt)
    /\ solves' = solves + 1
    /\ UNCHANGED <<position, inverse_mass, constraint>>
    /\ UNCHANGED hostVars

(***************************************************************************)
(* IsometricBendingConstraint                                              *)
(***************************************************************************)
\* Mat4 is the tuple of its four columns.
outer_product(v0, v1) ==
    [c \in 1 .. 4 |-> [r \in 1 .. 4 |-> RMul(v0[c], v1[r])]]

MatScale(m, s) == [c \in 1 .. 4 |-> [r \in 1 .. 4 |-> RMul(m[c][r], s)]]

row(m, i) == [j \in 1 .. 4 |-> m[j][i]]

cot(v0, v1) == RDiv(dot(v0, v1), length(cross(v0, v1)))

BendingK(pa, pb, pc, pd) ==
    LET e0 == VSub(pb, pa)
        e1 == VSub(pd, pb)
        e2 == VSub(pa, pd)
        e3 == VSub(pc, pa)
        e4 == VSub(pb, pc)
        c01 == cot(e0, e1)
        c02 == cot(e0, e2)
        c03 == cot(e0, e3)
        c04 == cot(e0, e4)
    IN  << RAdd(c01, c04), RAdd(c02, c03),
           RSub(RNeg(c01), c02), RSub(RNeg(c03), c04) >>

BendingArea(pa, pb, pc, pd) ==
    LET e0 == VSub(pb, pa)
        e3 == VSub(pc, pa)
        area_left == RMul(length(cross(e0, VSub(pd, pa))), Frac(1, 2))
        area_right == RMul(length(cross(e0, e3)), Frac(1, 2))
    IN  RAdd(area_left, area_right)

get_bending_energy(pa, pb, pc, pd) ==
    LET k == BendingK(pa, pb, pc, pd)
    IN  MatScale(outer_product(k, k), RDiv(Num(3), BendingArea(pa, pb, pc, pd)))

IsometricBendingConstraint_new(entity1, position1, entity2, position2, entity3, position3, entity4, position4) ==
    [kind |-> "bending", entity1 |-> entity1, entity2 |-> entity2,
     entity3 |-> entity3, entity4 |-> entity4,
     initial_bending_energy |->
         get_bending_energy(position1, position2, position3, position4),
     compliance |-> Zero]

\* particles = [pa, pb, pc, pd]
calculate_constraint_value(q, particles) ==
    RDiv(Sum4([i \in 1 .. 4 |->
                 Sum4([j \in 1 .. 4 |->
                         RMul(row(q, i)[j], dot(particles[i], particles[j]))])]),
         Num(2))

VSum4(f) == VAdd(VAdd(VAdd(VAdd(VecZero, f[1]), f[2]), f[3]), f[4])

calculate_gradient(q, particles) ==
    [i \in 1 .. 4 |->
        VSum4([j \in 1 .. 4 |-> VScale(particles[j], row(q, i)[j])])]

\* Exponents of the thresholds 1e-12 (energy) and 1e-9 (sum_normal_grad).
EnergyThresholdExp == 12

GradThresholdExp == 9

SumNormalGrad(im, grad) ==
    Sum4([i \in 1 .. 4 |-> RMul(im[i], length_squared(grad[i]))])

BendingPush(s, inv_mass, gradient, alpha) ==
    VScale(VScale(gradient, RMul(s, inv_mass)), alpha)

\* p, im, acc: current positions, inverse masses and accumulators of
\* bodies[0..3]; the result is the accumulators after solve.
IsometricBendingConstraint_solve(c, p, im, acc, dt) ==
    LET alpha == Alpha(c.compliance, dt)
        energy == calculate_constraint_value(c.initial_bending_energy, p)
        grad == calculate_gradient(c.initial_bending_energy, p)
        sum_normal_grad == SumNormalGrad(im, grad)
        s == RDiv(energy, sum_normal_grad)
    IN  IF RLtTenTo(energy, EnergyThresholdExp) THEN acc
        ELSE IF RLtTenTo(RAbs(sum_normal_grad), GradThresholdExp) THEN acc
        ELSE [i \in 1 .. 4 |-> VAdd(acc[i], BendingPush(s, im[i], grad[i], alpha))]

BendingSolved(c, dt) ==
    IsometricBendingConstraint_solve(c, BodyPositions(c), BodyMasses(c),
                                     BodyAccs(c), dt)

\* The lengths get_bending_energy takes are rational, and the two triangles
\* (pa, pb, pd) and (pa, pb, pc) have non-zero area.
BendingQuad(pa, pb, pc, pd) ==
    LET e0 == VSub(pb, pa)
        others == {VSub(pd, pa), VSub(pd, pb), VSub(pa, pd), VSub(pc, pa), VSub(pb, pc)}
    IN  \A e \in others :
           /\ ExactSqrt(length_squared(cross(e0, e)))
           /\ ~REq(length_squared(cross(e0, e)), Zero)

BendingNew ==
    /\ Setup
    /\ BendingQuad(position[1], position[2], position[3], position[4])
    /\ constraint' = IsometricBendingConstraint_new(1, position[1], 2, position[2],
                                                 3, position[3], 4, position[4])
    /\ Done("BendingNew", Zero)
    /\ UNCHANGED <<position, inverse_mass, accumulated_translation, fault, solves>>
    /\ UNCHANGED hostVars

BendingWithCompliance ==
    /\ Setup
    /\ constraint.kind = "bending"
    /\ \E compliance \in Compliances :
          constraint' = [constraint EXCEPT !.compliance = compliance]
    /\ Done("BendingWithCompliance", Zero)
    /\ UNCHANGED <<position, inverse_mass, accumulated_translation, fault, solves>>
    /\ UNCHANGED hostVars

BendingSolve ==
    /\ CanSolve
    /\ constraint.kind = "bending"
    /\ \E dt \in Dts :
          /\ accumulated_translation' =
                [b \in Bodies |-> BendingSolved(constraint, dt)[IndexOf(constraint, b)]]
          /\ Done("BendingSolve", dt)
    /\ solves' = solves + 1
    /\ UNCHANGED <<position, inverse_mass, constraint, fault>>
    /\ UNCHANGED hostVars

Next ==
    \/ EdgeNew
    \/ EdgeWithCompliance
    \/ EdgeWithRestLength
    \/ EdgeSolve
    \/ VolumeNew
    \/ VolumeWithCompliance
    \/ VolumeWithRestVolume
    \/ VolumeSolve
    \/ BendingNew
    \/ BendingWithCompliance
    \/ BendingSolve

Spec == Init /\ [][Next]_vars

(***************************************************************************)
(* DragParticlePlugin: drag_particles, one call per frame                  *)
(***************************************************************************)
\* Distance from the ray below which a particle is grabbed.
GrabRadius == Frac(1, 2)

\* Rays camera.viewport_to_world returns: origin and unit direction.
Rays ==
    { \* through bodies 1 and 4 of the drag scene
      [origin |-> Vec(0, 0, 4), direction |-> Vec(0, 0, -1)],
      \* passes body 2 at distance 3/10
      [origin |-> <<Frac(23, 10), Zero, Frac(2, 5)>>, direction |-> Vec(0, 0, -1)],
      \* slanted, through body 1
      [origin |-> Vec(-3, 0, 4), direction |-> <<Frac(3, 5), Zero, Frac(-4, 5)>>],
      \* farther than GrabRadius from every body
      [origin |-> Vec(1, 1, 4), direction |-> Vec(0, 0, -1)] }

\* Number of frames of one behaviour.
MaxFrames == 3

\* Inverse masses of the four bodies before any drag.
DragMasses == {Masses[1], Masses[2], Masses[8]}

\* Which bodies carry DragParticle { enabled: true }.
EnabledChoices ==
    { [b \in Bodies |-> TRUE], [b \in Bodies |-> b # 4] }

\* Input<MouseButton> for the left button in the next frame: the input system
\* clears just_pressed and just_released and then applies the frame's button
\* events, of which there may be none, one, or a press and a release.
ButtonFrames(prev) ==
    IF prev.pressed
    THEN { [pressed |-> TRUE, just_pressed |-> FALSE, just_released |-> FALSE],
           [pressed |-> FALSE, just_pressed |-> FALSE, just_released |-> TRUE],
           [pressed |-> TRUE, just_pressed |-> TRUE, just_released |-> TRUE] }
    ELSE { [pressed |-> FALSE, just_pressed |-> FALSE, just_released |-> FALSE],
           [pressed |-> TRUE, just_pressed |-> TRUE, just_released |-> FALSE],
           [pressed |-> FALSE, just_pressed |-> TRUE, just_released |-> TRUE] }

\* Square of the particle's distance from the ray.
RayDistanceSquared(ray, p) ==
    LET particle_from_origin == VSub(p, ray.origin)
        closest_point_on_ray ==
            VScale(ray.direction, dot(particle_from_origin, ray.direction))
    IN  length_squared(VSub(particle_from_origin, closest_point_on_ray))

\* distance < 0.5, compared on the squares.
Grabbable(ray) ==
    { b \in Bodies : /\ enabled[b]
                     /\ RLt(RayDistanceSquared(ray, position[b]),
                            RMul(GrabRadius, GrabRadius)) }

\* The bodies the loop can end with in closest: the first body of least
\* distance in the query's iteration order, which the code does not fix.
Closest(ray) ==
    { b \in Grabbable(ray) :
         \A c \in Grabbable(ray) :
            RLe(RayDistanceSquared(ray, position[b]),
                RayDistanceSquared(ray, position[c])) }

DragInfo(ray, id) ==
    [some |-> TRUE, id |-> id,
     grab_distance |-> distance(position[id], ray.origin),
     grab_inverse_mass |-> inverse_mass[id]]

\* drag_state and the inverse masses after the button branch, closest
\* being the body the search ended with (0: none).
AfterButtons(ray, input, closest) ==
    IF input.just_pressed
    THEN IF closest # 0
         THEN [drag_state |-> DragInfo(ray, closest),
               inverse_mass |-> [inverse_mass EXCEPT ![closest] = Zero]]
         ELSE [drag_state |-> drag_state, inverse_mass |-> inverse_mass]
    ELSE IF input.just_released /\ drag_state.some
    THEN [drag_state |-> None,
          inverse_mass |-> [inverse_mass EXCEPT
                               ![drag_state.id] = drag_state.grab_inverse_mass]]
    ELSE [drag_state |-> drag_state, inverse_mass |-> inverse_mass]

\* The position override of the dragged body.
Dragged(ray, info) ==
    IF info.some
    THEN [position EXCEPT
             ![info.id] = VAdd(ray.origin, VScale(ray.direction, info.grab_distance))]
    ELSE position

Grabs(input, closest) == input.just_pressed /\ closest # 0

\* The body of drag_particles once it has a ray.
DragWithRay(ray, input) ==
    \E closest \in (IF Closest(ray) = {} THEN {0} ELSE Closest(ray)) :
       /\ Grabs(input, closest)
             => ExactSqrt(length_squared(VSub(position[closest], ray.origin)))
       /\ LET after == AfterButtons(ray, input, closest)
          IN  /\ drag_state' = after.drag_state
              /\ inverse_mass' = after.inverse_mass
              /\ position' = Dragged(ray, after.drag_state)
       /\ first_grab' =
             IF Grabs(input, closest) /\ ~first_grab[closest].grabbed
             THEN [first_grab EXCEPT
                      ![closest] = [grabbed |-> TRUE,
                                    inverse_mass |-> inverse_mass[closest]]]
             ELSE first_grab

\* A frame without cursor position, camera or ray: drag_particles returns
\* before it reads the buttons.
DragFrameNoRay ==
    /\ frames < MaxFrames
    /\ frames' = frames + 1
    /\ \E input \in ButtonFrames(buttons) : buttons' = input
    /\ Done("drag_particles", Zero)
    /\ UNCHANGED <<position, inverse_mass, drag_state, first_grab>>
    /\ UNCHANGED <<accumulated_translation, constraint, fault, solves>>
    /\ UNCHANGED <<enabled, constraints, transforms, gizmos>>

DragFrame ==
    /\ frames < MaxFrames
    /\ frames' = frames + 1
    /\ \E input \in ButtonFrames(buttons) :
          /\ buttons' = input
          /\ \E ray \in Rays : DragWithRay(ray, input)
    /\ Done("drag_particles", Zero)
    /\ UNCHANGED <<accumulated_translation, constraint, fault, solves>>
    /\ UNCHANGED <<enabled, constraints, transforms, gizmos>>

DragInit ==
    /\ position = [b \in Bodies |-> Scenes[1][b]]
    /\ \E m \in DragMasses : inverse_mass = [b \in Bodies |-> Num(m[b])]
    /\ accumulated_translation = [b \in Bodies |-> VecZero]
    /\ constraint = NoConstraint
    /\ last = [op |-> "init", dt |-> Zero, acc |-> [b \in Bodies |-> VecZero]]
    /\ fault = "none"
    /\ solves = 0
    /\ drag_state = None
    /\ buttons = [pressed |-> FALSE, just_pressed |-> FALSE, just_released |-> FALSE]
    /\ enabled \in EnabledChoices
    /\ first_grab = [b \in Bodies |-> NotGrabbed]
    /\ frames = 0
    /\ constraints = << >>
    /\ transforms = Bodies
    /\ gizmos = << >>

DragNext == DragFrameNoRay \/ DragFrame

DragSpec == DragInit /\ [][DragNext]_vars

(***************************************************************************)
(* Debug draw systems                                                      *)
(***************************************************************************)
\* Largest number of constraint components in the world.
MaxConstraints == 2

\* An entity that has been despawned: it has no GlobalTransform.
Despawned == 5

\* The constraint components the world can hold, built on the first scene.
DrawPool ==
    LET p == Scenes[1]
    IN  << EdgeConstraint_new(1, p[1], 2, p[2]),
           EdgeConstraint_new(1, p[1], 3, p[3]),
           EdgeConstraint_new(3, p[3], Despawned, p[3]),
           VolumeConstraint_new(1, p[1], 2, p[2], 3, p[3], 4, p[4]),
           [VolumeConstraint_new(1, p[1], 2, p[2], 3, p[3], 4, p[4])
               EXCEPT !.entity2 = Despawned],
           IsometricBendingConstraint_new(1, p[1], 2, p[2], 3, p[3], 4, p[4]),
           [IsometricBendingConstraint_new(1, p[1], 2, p[2], 3, p[3], 4, p[4])
               EXCEPT !.entity4 = Despawned] >>

\* The sets of bodies that have a GlobalTransform.
TransformChoices == {Bodies, Bodies \ {2}}

EdgeEntities(c) == <<c.entity1, c.entity2>>

\* filter_map over the entities: the translations of those that have a
\* GlobalTransform, in order.
Translations(ents) ==
    LET found == SelectSeq(ents, LAMBDA e : e \in transforms)
    IN  [i \in 1 .. Len(found) |-> position[found[i]]]

EdgeLines(p) == << <<p[1], p[2]>> >>

QuadLines(p) ==
    << <<p[1], p[2]>>, <<p[1], p[3]>>, <<p[1], p[4]>>,
       <<p[2], p[3]>>, <<p[2], p[4]>>, <<p[3], p[4]>> >>

VolumeDrawScale == Frac(9, 10)

\* The tetrahedron shrunk towards its center.
Shrunk(p) ==
    LET center == VDiv(VAdd(VAdd(VAdd(p[1], p[2]), p[3]), p[4]), Num(4))
    IN  [i \in 1 .. 4 |-> VAdd(center, VScale(VSub(p[i], center), VolumeDrawScale))]

DrawnEntities(c) == IF c.kind = "edge" THEN EdgeEntities(c) ELSE entities(c)

DrawnLines(c, p) ==
    IF c.kind = "edge" THEN EdgeLines(p)
    ELSE IF c.kind = "volume" THEN QuadLines(Shrunk(p))
    ELSE QuadLines(p)

\* The loop of a draw system over the constraints of its query, from index
\* i on: collect_tuple gives None unless every entity has a translation,
\* and the system returns.
RECURSIVE DrawLoop(_, _, _)
DrawLoop(query, i, lines) ==
    IF i > Len(query) THEN lines
    ELSE LET c == query[i]
             p == Translations(DrawnEntities(c))
         IN  IF Len(p) # Len(DrawnEntities(c)) THEN lines
             ELSE DrawLoop(query, i + 1, lines \o DrawnLines(c, p))

\* Query<&EdgeConstraint>, Query<&IsometricBendingConstraint>,
\* Query<&VolumeConstraint>
Query(kind) == SelectSeq(constraints, LAMBDA c : c.kind = kind)

draw_debug_edge_constraints ==
    /\ gizmos' = DrawLoop(Query("edge"), 1, << >>)
    /\ Done("draw_debug_edge_constraints", Zero)
    /\ UNCHANGED <<position, inverse_mass, accumulated_translation, constraint,
                   fault, solves>>
    /\ UNCHANGED <<drag_state, buttons, enabled, first_grab, frames, constraints,
                   transforms>>

draw_debug_isometric_bend_constraints ==
    /\ gizmos' = DrawLoop(Query("bending"), 1, << >>)
    /\ Done("draw_debug_isometric_bend_constraints", Zero)
    /\ UNCHANGED <<position, inverse_mass, accumulated_translation, constraint,
                   fault, solves>>
    /\ UNCHANGED <<drag_state, buttons, enabled, first_grab, frames, constraints,
                   transforms>>

draw_debug_volume_constraints ==
    /\ gizmos' = DrawLoop(Query("volume"), 1, << >>)
    /\ Done("draw_debug_volume_constraints", Zero)
    /\ UNCHANGED <<position, inverse_mass, accumulated_translation, constraint,
                   fault, solves>>
    /\ UNCHANGED <<drag_state, buttons, enabled, first_grab, frames, constraints,
                   transforms>>

DrawInit ==
    /\ position = [b \in Bodies |-> Scenes[1][b]]
    /\ inverse_mass = [b \in Bodies |-> Num(1)]
    /\ accumulated_translation = [b \in Bodies |-> VecZero]
    /\ constraint = NoConstraint
    /\ last = [op |-> "init", dt |-> Zero, acc |-> [b \in Bodies |-> VecZero]]
    /\ fault = "none"
    /\ solves = 0
    /\ drag_state = None
    /\ buttons = [pressed |-> FALSE, just_pressed |-> FALSE, just_released |-> FALSE]
    /\ enabled = [b \in Bodies |-> FALSE]
    /\ first_grab = [b \in Bodies |-> NotGrabbed]
    /\ frames = 0
    /\ \E n \in 0 .. MaxConstraints :
          \E pick \in [1 .. n -> 1 .. Len(DrawPool)] :
             constraints = [i \in 1 .. n |-> DrawPool[pick[i]]]
    /\ transforms \in TransformChoices
    /\ gizmos = << >>

DrawNext ==
    \/ draw_debug_edge_constraints
    \/ draw_debug_isometric_bend_constraints
    \/ draw_debug_volume_constraints

DrawSpec == DrawInit /\ [][DrawNext]_vars

(***************************************************************************)
(* Properties                                                              *)
(***************************************************************************)
SolveOps == {"EdgeSolve", "VolumeSolve", "BendingSolve"}

\* current_position of body b before the last operation.
Before(b) == VAdd(position[b], last.acc[b])

\* The last operation was the first solve of the behaviour: it started from
\* zeroed accumulators.
Isolated == last.op \in SolveOps /\ solves = 1

Touched ==
    IF constraint.kind = "edge" THEN {constraint.entity1, constraint.entity2}
    ELSE IF constraint.kind \in {"volume", "bending"} THEN Bodies
    ELSE {}

EdgeDistanceBefore == distance(Before(constraint.entity1), Before(constraint.entity2))

EdgeDistanceAfter ==
    distance(current_position(constraint.entity1), current_position(constraint.entity2))

EdgeTotalInverseMass ==
    RAdd(inverse_mass[constraint.entity1], inverse_mass[constraint.entity2])

\* C2: one isolated EdgeConstraint solve with total inverse mass > 0 leaves the
\* distance strictly closer to rest_length unless it was equal to it, and
\* exactly at rest_length when compliance is 0 and one body has inverse mass 0.
C2_EdgeMovesCloserToRest ==
    (/\ Isolated
     /\ last.op = "EdgeSolve"
     /\ RLt(Zero, EdgeTotalInverseMass))
    => /\ \/ REq(EdgeDistanceBefore, constraint.rest_length)
          \/ RLt(RAbs(RSub(EdgeDistanceAfter, constraint.rest_length)),
                 RAbs(RSub(EdgeDistanceBefore, constraint.rest_length)))
       /\ (/\ REq(constraint.compliance, Zero)
           /\ \/ REq(inverse_mass[constraint.entity1], Zero)
              \/ REq(inverse_mass[constraint.entity2], Zero))
          => REq(EdgeDistanceAfter, constraint.rest_length)

\* An isolated solve of a stretched edge with a positive compliance and two
\* movable bodies has run.
C2_Witness ==
    /\ Isolated
    /\ last.op = "EdgeSolve"
    /\ RLt(Zero, inverse_mass[constraint.entity1])
    /\ RLt(Zero, inverse_mass[constraint.entity2])
    /\ RLt(Zero, constraint.compliance)
    /\ RLt(constraint.rest_length, EdgeDistanceBefore)
    /\ RLt(constraint.rest_length, EdgeDistanceAfter)

\* The correction the claim C3 expects for a body of inverse mass im: the
\* share im / (im1 + im2) of (distance - rest_length), along unit.
EdgeShare(unit, im) ==
    VScale(unit, RDiv(RMul(RSub(EdgeDistanceBefore, constraint.rest_length), im),
                      EdgeTotalInverseMass))

EdgeUnit ==
    VDiv(VSub(Before(constraint.entity2), Before(constraint.entity1)),
         EdgeDistanceBefore)

\* C3: with compliance 0, body i moves by (distance - rest_length) * invMass_i /
\* (invMass1 + invMass2) along the line joining the bodies, a stretched pair
\* toward each other; bodies at (0,0,0) and (2,0,0) with rest_length 1 receive
\* +0.5 / -0.5 along X with inverse masses 1, 1 and 0 / -1 with 0, 1.
C3_EdgeSplitsByInverseMass ==
    (/\ Isolated
     /\ last.op = "EdgeSolve"
     /\ REq(constraint.compliance, Zero)
     /\ RLt(Zero, EdgeTotalInverseMass)
     /\ RLt(Zero, EdgeDistanceBefore))
    => /\ accumulated_translation[constraint.entity1] =
             EdgeShare(EdgeUnit, inverse_mass[constraint.entity1])
       /\ accumulated_translation[constraint.entity2] =
             EdgeShare(EdgeUnit, RNeg(inverse_mass[constraint.entity2]))
       /\ (/\ position[constraint.entity1] = Vec(0, 0, 0)
           /\ position[constraint.entity2] = Vec(2, 0, 0)
           /\ constraint.rest_length = Num(1))
          => /\ (inverse_mass[constraint.entity1] = Num(1)
                 /\ inverse_mass[constraint.entity2] = Num(1))
                => /\ accumulated_translation[constraint.entity1]
                        = <<Frac(1, 2), Zero, Zero>>
                   /\ accumulated_translation[constraint.entity2]
                        = <<Frac(-1, 2), Zero, Zero>>
             /\ (inverse_mass[constraint.entity1] = Num(0)
                 /\ inverse_mass[constraint.entity2] = Num(1))
                => /\ accumulated_translation[constraint.entity1] = VecZero
                   /\ accumulated_translation[constraint.entity2] = Vec(-1, 0, 0)

\* The end-to-end scenario with inverse masses 1, 1 has been solved.
C3_Witness ==
    /\ Isolated
    /\ last.op = "EdgeSolve"
    /\ REq(constraint.compliance, Zero)
    /\ position[constraint.entity1] = Vec(0, 0, 0)
    /\ position[constraint.entity2] = Vec(2, 0, 0)
    /\ constraint.rest_length = Num(1)
    /\ inverse_mass[constraint.entity1] = Num(1)
    /\ inverse_mass[constraint.entity2] = Num(1)
    /\ accumulated_translation[constraint.entity1] = <<Frac(1, 2), Zero, Zero>>

InputVolume == volume(position[1], position[2], position[3], position[4])

\* C4: VolumeConstraint::new stores the 2nd and 3rd identifiers swapped and a
\* positive rest_volume when the signed volume in input order is negative,
\* keeps the input order and that volume when it is positive, and panics
\* without producing a constraint when the four points are coplanar.
C4_VolumeNewOrientation ==
    last.op = "VolumeNew"
    => /\ RLt(InputVolume, Zero)
          => /\ fault = "none"
             /\ constraint.kind = "volume"
             /\ entities(constraint) = <<1, 3, 2, 4>>
             /\ RLt(Zero, constraint.rest_volume)
             /\ constraint.rest_volume = RNeg(InputVolume)
       /\ RLt(Zero, InputVolume)
          => /\ fault = "none"
             /\ constraint.kind = "volume"
             /\ entities(constraint) = <<1, 2, 3, 4>>
             /\ constraint.rest_volume = InputVolume
       /\ REq(InputVolume, Zero)
          => /\ fault = "panic"
             /\ constraint.kind # "volume"

\* new has run on a tetrahedron of negative signed volume.
C4_Witness ==
    /\ last.op = "VolumeNew"
    /\ RLt(InputVolume, Zero)
    /\ constraint.kind = "volume"
    /\ constraint.entity2 = 3

\* Positions, before the last operation, of bodies[0..3] of the four-body
\* constraint, and the translation the last operation gave each of them.
PBefore == [i \in 1 .. 4 |-> Before(entities(constraint)[i])]

PAfter == [i \in 1 .. 4 |-> current_position(entities(constraint)[i])]

Moved == [i \in 1 .. 4 |-> VSub(PAfter[i], PBefore[i])]

VolumeOf(p) == volume(p[1], p[2], p[3], p[4])

\* volume is affine in each single position, so its derivative with respect to
\* body i along d is the difference of two volumes.
VolumeDerivative(p, i, d) ==
    RSub(VolumeOf([p EXCEPT ![i] = VAdd(p[i], d)]), VolumeOf(p))

FirstOrderVolumeChange ==
    Sum4([i \in 1 .. 4 |-> VolumeDerivative(PBefore, i, Moved[i])])

AllMovable == \A b \in Bodies : RLt(Zero, inverse_mass[b])

\* C5 (as claimed): one isolated VolumeConstraint solve with compliance 0 on four
\* movable bodies whose volume differs from rest_volume changes the volume, to
\* first order, in the direction of (rest_volume - volume).
C5_VolumeSolveDrivesErrorToZero ==
    (/\ Isolated
     /\ last.op = "VolumeSolve"
     /\ REq(constraint.compliance, Zero)
     /\ AllMovable
     /\ ~REq(VolumeOf(PBefore), constraint.rest_volume))
    => IF RLt(VolumeOf(PBefore), constraint.rest_volume)
       THEN RLt(Zero, FirstOrderVolumeChange)
       ELSE RLt(FirstOrderVolumeChange, Zero)

Coplanar(p) == REq(VolumeOf(p), Zero)

\* pc and pd lie on opposite sides of the line through pa and pb.
ApexesOpposite(p) ==
    LET e0 == VSub(p[2], p[1])
    IN  RLt(dot(cross(e0, VSub(p[3], p[1])), cross(e0, VSub(p[4], p[1]))), Zero)

BendingEnergy(p) == calculate_constraint_value(constraint.initial_bending_energy, p)

\* C6 (as claimed): for a flat quad with the apexes on opposite sides of the
\* shared edge, the energy of the matrix baked by new, evaluated at the same
\* four positions, is 0 up to 1e-6.
C6_RestStateHasZeroEnergy ==
    (/\ last.op = "BendingNew"
     /\ Coplanar(PAfter)
     /\ ApexesOpposite(PAfter))
    => RLtTenTo(RAbs(BendingEnergy(PAfter)), 6)

BendingGradient(p) == calculate_gradient(constraint.initial_bending_energy, p)

\* C7 (as claimed): an isolated IsometricBendingConstraint solve with energy of
\* at least 1e-12 and a movable body of non-zero gradient does not increase
\* the bending energy, for every compliance >= 0 and dt > 0.
C7_BendingSolveDoesNotRaiseEnergy ==
    (/\ Isolated
     /\ last.op = "BendingSolve"
     /\ ~RLtTenTo(BendingEnergy(PBefore), EnergyThresholdExp)
     /\ \E i \in 1 .. 4 :
           /\ RLt(Zero, inverse_mass[entities(constraint)[i]])
           /\ BendingGradient(PBefore)[i] # VecZero)
    => RLe(BendingEnergy(PAfter), BendingEnergy(PBefore))

\* Compliances the correction magnitudes are compared over.
ComplianceGrid == {Num(0), Num(1), Num(2)}

\* The translations one solve of the held constraint, with its compliance
\* replaced by compliance, adds to the accumulators of the bodies.
Correction(compliance, dt) ==
    LET c == [constraint EXCEPT !.compliance = compliance]
    IN  IF c.kind = "edge"
        THEN [b \in Bodies |->
                IF b = c.entity1
                THEN VSub(EdgeSolved(c, dt)[1], accumulated_translation[b])
                ELSE IF b = c.entity2
                THEN VSub(EdgeSolved(c, dt)[2], accumulated_translation[b])
                ELSE VecZero]
        ELSE IF c.kind = "volume"
        THEN [b \in Bodies |->
                VSub(VolumeSolved(c, dt).acc[IndexOf(c, b)], accumulated_translation[b])]
        ELSE [b \in Bodies |->
                VSub(BendingSolved(c, dt)[IndexOf(c, b)], accumulated_translation[b])]

Solvable ==
    /\ fault = "none"
    /\ solves = 0
    /\ constraint.kind # "none"
    /\ constraint.kind = "edge" =>
          ExactSqrt(length_squared(VSub(current_position(constraint.entity2),
                                        current_position(constraint.entity1))))

MonotoneInCompliance ==
    \A dt \in Dts : \A c1, c2 \in ComplianceGrid :
       RLt(c1, c2) =>
          \A b \in Bodies :
             RLe(length_squared(Correction(c2, dt)[b]),
                 length_squared(Correction(c1, dt)[b]))

\* C8 (as claimed): for every constraint kind, with everything else fixed, the
\* magnitude of the correction solve adds to each body is largest at
\* compliance 0 and does not increase as compliance grows.
C8_ComplianceZeroIsStiffest == Solvable => MonotoneInCompliance

SatisfiedBefore ==
    IF constraint.kind = "edge"
    THEN REq(EdgeDistanceBefore, constraint.rest_length)
    ELSE IF constraint.kind = "volume"
    THEN REq(VolumeOf(PBefore), constraint.rest_volume)
    ELSE RLtTenTo(BendingEnergy(PBefore), EnergyThresholdExp)

\* C9: a solve of an already satisfied constraint (edge at rest_length, volume
\* at rest_volume, bending energy below 1e-12) leaves every accumulator
\* unchanged, at every repetition.
C9_SatisfiedConstraintAddsNothing ==
    (last.op \in SolveOps /\ SatisfiedBefore)
    => accumulated_translation = last.acc

\* The regular tetrahedron, built with its own volume as rest_volume and
\* compliance 0, has been solved twice with all four bodies movable.
C9_Witness ==
    /\ last.op = "VolumeSolve"
    /\ solves = 2
    /\ position = [b \in Bodies |-> Scenes[3][b]]
    /\ AllMovable
    /\ REq(constraint.compliance, Zero)
    /\ SatisfiedBefore

Coincident == Before(constraint.entity1) = Before(constraint.entity2)

\* rest_length / (w + alpha) with alpha = compliance / dt^2
CollapsedResidual ==
    RDiv(constraint.rest_length,
         RAdd(EdgeTotalInverseMass,
              RDiv(constraint.compliance, RMul(last.dt, last.dt))))

\* C10: EdgeConstraint solve on two coincident bodies with total inverse mass
\* > 0 does not panic and writes no NaN; body 1 receives -X * residual *
\* invMass1 and body 2 +X * residual * invMass2, residual = rest_length /
\* (w + alpha).
C10_CollapsedEdgeUsesXAxis ==
    (/\ last.op = "EdgeSolve"
     /\ Coincident
     /\ RLt(Zero, EdgeTotalInverseMass))
    => /\ fault = "none"
       /\ \A b \in Bodies : VIsFinite(accumulated_translation[b])
       /\ accumulated_translation[constraint.entity1] =
             VAdd(last.acc[constraint.entity1],
                  VScale(VecX, RNeg(RMul(CollapsedResidual,
                                         inverse_mass[constraint.entity1]))))
       /\ accumulated_translation[constraint.entity2] =
             VAdd(last.acc[constraint.entity2],
                  VScale(VecX, RMul(CollapsedResidual,
                                    inverse_mass[constraint.entity2])))

\* A collapsed edge with a positive rest length, a positive compliance and
\* two movable bodies has been solved.
C10_Witness ==
    /\ last.op = "EdgeSolve"
    /\ Coincident
    /\ RLt(Zero, inverse_mass[constraint.entity1])
    /\ RLt(Zero, inverse_mass[constraint.entity2])
    /\ RLt(Zero, constraint.rest_length)
    /\ RLt(Zero, constraint.compliance)
    /\ accumulated_translation[constraint.entity2] # last.acc[constraint.entity2]

\* The pushes the last VolumeConstraint solve computed for bodies[0..3], and
\* the w it tested before computing them.
VolumeViewsBefore == id_views(BodyMasses(constraint), PBefore)

VolumeWBefore == VolumeW(VolumeViewsBefore, VolumeGradients(VolumeViewsBefore))

VolumePushesBefore ==
    LET gradients == VolumeGradients(VolumeViewsBefore)
        residual == VolumeResidual(VolumeOf(PBefore), constraint.rest_volume,
                                   VolumeWBefore,
                                   Alpha(constraint.compliance, last.dt))
    IN  [i \in 1 .. 4 |-> VolumePush(gradients[i], residual, BodyMasses(constraint)[i])]

NonFinitePush(i) == ~VIsFinite(VolumePushesBefore[i])

\* C11 (as claimed): when a VolumeConstraint solve computes a push with a NaN
\* or infinite component, the solve panics and no body's
\* accumulated_translation receives a non-finite push.
C11_NonFinitePushAborts ==
    (/\ last.op = "VolumeSolve"
     /\ ~REq(VolumeWBefore, Zero)
     /\ \A b \in Bodies : VIsFinite(Before(b))
     /\ \E i \in 1 .. 4 : NonFinitePush(i))
    => /\ fault = "panic"
       /\ \A b \in Bodies : VIsFinite(accumulated_translation[b])

\* The gradient of volume with respect to the position of body i: its
\* components are the derivatives along the three axes.
TrueVolumeGradient(p, i) ==
    << VolumeDerivative(p, i, Vec(1, 0, 0)),
       VolumeDerivative(p, i, Vec(0, 1, 0)),
       VolumeDerivative(p, i, Vec(0, 0, 1)) >>

\* C13 (as claimed): in a VolumeConstraint solve the vector applied to
\* bodies[i] is the gradient of volume with respect to the position of
\* bodies[i], and its term of w is weighted by the inverse mass of bodies[i].
C13_GradientMatchesBody ==
    last.op = "VolumeSolve"
    => \A i \in 1 .. 4 :
          /\ VolumeGradients(VolumeViewsBefore)[i] = TrueVolumeGradient(PBefore, i)
          /\ VolumeViewsBefore[i][1] = BodyMasses(constraint)[i]

\* C12 (as claimed): whenever the left button is up after a frame of
\* drag_particles, every body that was ever grabbed has the inverse mass it
\* had before it was first grabbed.
C12_DragRestoresInverseMass ==
    ~buttons.pressed
    => \A b \in Bodies :
          first_grab[b].grabbed => inverse_mass[b] = first_grab[b].inverse_mass

DrawnKind ==
    IF last.op = "draw_debug_edge_constraints" THEN "edge"
    ELSE IF last.op = "draw_debug_isometric_bend_constraints" THEN "bending"
    ELSE IF last.op = "draw_debug_volume_constraints" THEN "volume"
    ELSE "none"

Complete(c) == \A i \in 1 .. Len(DrawnEntities(c)) : DrawnEntities(c)[i] \in transforms

\* The segments of the constraints of query, from index i on, whose bodies
\* all have a transform.
RECURSIVE LinesOfComplete(_, _)
LinesOfComplete(query, i) ==
    IF i > Len(query) THEN << >>
    ELSE (IF Complete(query[i])
          THEN DrawnLines(query[i], Translations(DrawnEntities(query[i])))
          ELSE << >>) \o LinesOfComplete(query, i + 1)

\* C14 (as claimed): a draw system emits exactly the segments of the
\* constraints of its query whose bodies all have a transform: none for a
\* constraint that names a missing body, all six (or the one) for every other
\* constraint, wherever the incomplete constraint stands in the iteration.
C14_DrawSkipsOnlyIncomplete ==
    DrawnKind # "none" => gizmos = LinesOfComplete(Query(DrawnKind), 1)

====
